---- MODULE Spec2Model ----
(***************************************************************************)
(* Templated service catalog (keystone/catalog/backends/templated.py) and  *)
(* the endpoint-filter manager (keystone/contrib/endpoint_filter/core.py). *)
(*                                                                         *)
(* Python values are modelled as follows.                                  *)
(*   str        text that comes from the template (lines, regions,         *)
(*              services, keys, values, and what is derived from them) is  *)
(*              a sequence of one-character strings; keys that the code    *)
(*              writes as literals and opaque ids of the store (projects,  *)
(*              endpoint groups, filter keys) are TLA+ strings             *)
(*   None, True one-element sequences that no text equals                  *)
(*   dict       an association list: a sequence of <<key, value>> pairs    *)
(*              with distinct keys, in insertion order                     *)
(*   list       a sequence                                                 *)
(*   exception  a record field raised, "none" when the call returned       *)
(***************************************************************************)
EXTENDS Integers, Sequences, FiniteSets, TLC

VARIABLES
  template_lines,  \* parse_templates: the lines handed to it
  parsed,          \* parse_templates: its outcome, "pending" before the call
  templates,       \* Catalog.templates
  op,              \* Catalog: the last operation called, with its arguments
  ret,             \* Catalog: outcome of the last operation
  endpoint_groups, \* driver: the endpoint groups, id -> filters
  assoc,           \* driver: direct (project_id, endpoint_id) associations
  group_assoc,     \* driver: (endpoint_group_id, project_id) associations
  group_order,     \* driver: the order in which it lists endpoint groups
  pc,              \* list_endpoints_for_project: position of each caller
  project,         \* list_endpoints_for_project: project_id of each caller
  refs,            \* refs (line 108) still to be visited by the loop
  filtered,        \* filtered_endpoints of each caller
  outcome,         \* outcome of each caller's current call
  removed,         \* removals the current call has issued, in order
  calls,           \* number of calls each caller has started
  last             \* per project: outcome and removals of the last completed call

vars == <<template_lines, parsed, templates, op, ret, endpoint_groups, assoc,
          group_assoc, group_order,
          pc, project, refs, filtered, outcome, removed, calls, last>>

parseVars == <<template_lines, parsed>>
catalogVars == <<op, ret>>
storeVars == <<endpoint_groups, assoc, group_assoc, group_order>>
callVars == <<pc, project, refs, filtered, outcome, removed, calls, last>>

----------------------------------------------------------------------------
(* Python dict as an insertion-ordered association list.                   *)

EmptyDict == << >>

RECURSIVE IndexOf(_, _, _)
IndexOf(d, k, i) ==
  IF i > Len(d) THEN 0
  ELSE IF d[i][1] = k THEN i
  ELSE IndexOf(d, k, i + 1)

Has(d, k) == IndexOf(d, k, 1) # 0

\* d[k]; only used where Has(d, k)
Get(d, k) == d[IndexOf(d, k, 1)][2]

\* d.get(k, default)
GetOr(d, k, default) == IF Has(d, k) THEN Get(d, k) ELSE default

\* d[k] = v: an existing key keeps its place, a new key goes last
Put(d, k, v) ==
  IF Has(d, k)
  THEN [i \in 1..Len(d) |-> IF d[i][1] = k THEN <<k, v>> ELSE d[i]]
  ELSE Append(d, <<k, v>>)

Keys(d) == [i \in 1..Len(d) |-> d[i][1]]
KeySet(d) == {d[i][1] : i \in 1..Len(d)}

----------------------------------------------------------------------------
(* Python str operations on character sequences.                           *)

\* the TLA+ string spelling the text cs (to index a record by a template key)
RECURSIVE Str(_)
Str(cs) == IF cs = << >> THEN "" ELSE Head(cs) \o Str(Tail(cs))

None == <<"None">>
PyTrue == <<"True">>

\* truth value of a str-or-None
Truthy(x) == x # None /\ x # << >>

Whitespace == {" ", "\n", "\t"}

\* s.startswith(prefix)
StartsWith(s, prefix) ==
  /\ Len(s) >= Len(prefix)
  /\ SubSeq(s, 1, Len(prefix)) = prefix

\* position of the first occurrence of sep in s at or after i, 0 when none
RECURSIVE Find(_, _, _)
Find(s, sep, i) ==
  IF i + Len(sep) - 1 > Len(s) THEN 0
  ELSE IF SubSeq(s, i, i + Len(sep) - 1) = sep THEN i
  ELSE Find(s, sep, i + 1)

\* sep in s
Contains(s, sep) == Find(s, sep, 1) # 0

\* s.split(sep): every occurrence splits, left to right
RECURSIVE Split(_, _)
Split(s, sep) ==
  LET i == Find(s, sep, 1) IN
  IF i = 0 THEN <<s>>
  ELSE <<SubSeq(s, 1, i - 1)>> \o Split(SubSeq(s, i + Len(sep), Len(s)), sep)

\* s.rstrip()
RECURSIVE RStrip(_)
RStrip(s) ==
  IF s # << >> /\ s[Len(s)] \in Whitespace
  THEN RStrip(SubSeq(s, 1, Len(s) - 1))
  ELSE s

\* s.lstrip()
RECURSIVE LStrip(_)
LStrip(s) ==
  IF s # << >> /\ Head(s) \in Whitespace THEN LStrip(Tail(s)) ELSE s

\* s.strip()
Strip(s) == LStrip(RStrip(s))

\* s.replace(old, new) for one-character old and new
Replace(s, old, new) == [i \in 1..Len(s) |-> IF s[i] = old THEN new ELSE s[i]]

----------------------------------------------------------------------------
(* parse_templates                                                         *)

SepChars == <<" ", "=", " ">>
CatalogPrefix == <<"c", "a", "t", "a", "l", "o", "g", ".">>

\* One iteration of the loop of parse_templates on the dict o built so far.
ParseLine(o, line) ==
  IF ~Contains(line, SepChars) THEN [raised |-> "none", o |-> o]
  ELSE
    LET kv == Split(Strip(line), SepChars) IN
    \* k, v = ...: unpacking needs exactly two values
    IF Len(kv) # 2 THEN [raised |-> "ValueError", o |-> o]
    ELSE
      LET k == kv[1]
          v == kv[2]
      IN
      IF ~StartsWith(k, CatalogPrefix) THEN [raised |-> "none", o |-> o]
      ELSE
        LET parts == Split(k, <<".">>) IN
        \* parts[2], parts[3]
        IF Len(parts) < 4 THEN [raised |-> "IndexError", o |-> o]
        ELSE
          LET region == parts[2]
              service == RStrip(Replace(parts[3], "_", "-"))
              key == RStrip(parts[4])
              region_ref == GetOr(o, region, EmptyDict)
              service_ref == GetOr(region_ref, service, EmptyDict)
          IN
          [raised |-> "none",
           o |-> Put(o, region,
                     Put(region_ref, service, Put(service_ref, key, v)))]

RECURSIVE ParseFrom(_, _, _)
ParseFrom(o, lines, i) ==
  IF i > Len(lines) THEN [raised |-> "none", o |-> o]
  ELSE
    LET r == ParseLine(o, lines[i]) IN
    IF r.raised # "none" THEN [raised |-> r.raised, o |-> EmptyDict]
    ELSE ParseFrom(r.o, lines, i + 1)

parse_templates(lines) == ParseFrom(EmptyDict, lines, 1)

----------------------------------------------------------------------------
(* keystone.catalog.core.format_url: $(name)s placeholders of url are      *)
(* replaced by substitutions[name]. The first placeholder whose name is    *)
(* absent decides: None when the name is in silent_keyerror_failures,      *)
(* MalformedEndpoint otherwise.                                            *)

RECURSIVE FormatFrom(_, _, _, _, _)
FormatFrom(url, i, substitutions, silent, acc) ==
  IF i > Len(url) THEN [raised |-> "none", value |-> acc]
  ELSE
    LET close == Find(url, <<")", "s">>, i + 2) IN
    IF i < Len(url) /\ SubSeq(url, i, i + 1) = <<"$", "(">> /\ close # 0
    THEN
      LET name == SubSeq(url, i + 2, close - 1) IN
      IF Has(substitutions, name)
      THEN FormatFrom(url, close + 2, substitutions, silent,
                      acc \o Get(substitutions, name))
      ELSE IF name \in silent THEN [raised |-> "none", value |-> None]
      ELSE [raised |-> "MalformedEndpoint", value |-> None]
    ELSE FormatFrom(url, i + 1, substitutions, silent, Append(acc, url[i]))

format_url(url, substitutions, silent_keyerror_failures) ==
  FormatFrom(url, 1, substitutions, silent_keyerror_failures, << >>)

----------------------------------------------------------------------------
(* Catalog (templated backend)                                             *)

sName == <<"n", "a", "m", "e">>
sURL == <<"U", "R", "L">>
sUserId == <<"u", "s", "e", "r", "_", "i", "d">>
sTenantId == <<"t", "e", "n", "a", "n", "t", "_", "i", "d">>

\* CONF.items() chained with CONF.eventlet_server.items()
CONF == << <<<<"h">>, <<"H">>>>, <<<<"e">>, << >>>> >>

service_properties ==
  << <<"i", "d">>, <<"e", "n", "a", "b", "l", "e", "d">>, <<"t", "y", "p", "e">>,
     sName, <<"d", "e", "s", "c", "r", "i", "p", "t", "i", "o", "n">> >>

endpoint_properties ==
  << <<"i", "d">>, <<"e", "n", "a", "b", "l", "e", "d">>,
     <<"i", "n", "t", "e", "r", "f", "a", "c", "e">>,
     <<"r", "e", "g", "i", "o", "n">>,
     <<"s", "e", "r", "v", "i", "c", "e", "_", "i", "d">>, <<"u", "r", "l">> >>

InList(x, list) == \E i \in 1..Len(list) : list[i] = x

\* uuid.uuid5(uuid.NAMESPACE_DNS, name).hex: a name-based hash, modelled as
\* an injective tagging of the name
uuid5(name) == <<"#">> \o name

\* The inner loop of get_catalog over service_ref.items(), from item i on.
RECURSIVE FormatService(_, _, _, _, _)
FormatService(service_ref, i, substitutions, silent, service_data) ==
  IF i > Len(service_ref) THEN [raised |-> "none", data |-> service_data]
  ELSE
    LET k == service_ref[i][1]
        v == service_ref[i][2]
        formatted_value == format_url(v, substitutions, silent)
    IN
    IF formatted_value.raised # "none"
    THEN [raised |-> formatted_value.raised, data |-> service_data]
    ELSE FormatService(service_ref, i + 1, substitutions, silent,
                       IF Truthy(formatted_value.value)
                       THEN Put(service_data, k, formatted_value.value)
                       ELSE service_data)

\* as CatalogRegion, but a service whose formatting raised is emitted with
\* the attributes formatted before the failure
RECURSIVE CatalogRegionKeepsPartial(_, _, _, _, _)
CatalogRegionKeepsPartial(region_ref, i, substitutions, silent, acc) ==
  IF i > Len(region_ref) THEN acc
  ELSE
    LET service == region_ref[i][1]
        r == FormatService(region_ref[i][2], 1, substitutions, silent,
                           EmptyDict)
    IN
    CatalogRegionKeepsPartial(region_ref, i + 1, substitutions, silent,
                              Put(acc, service, r.data))

\* The loop of get_catalog over region_ref.items(), from item i on: a
\* service whose formatting raised MalformedEndpoint is passed over by the
\* continue, before catalog[region][service] is assigned.
RECURSIVE CatalogRegion(_, _, _, _, _)
CatalogRegion(region_ref, i, substitutions, silent, acc) ==
  IF i > Len(region_ref) THEN acc
  ELSE
    LET service == region_ref[i][1]
        r == FormatService(region_ref[i][2], 1, substitutions, silent,
                           EmptyDict)
    IN
    CatalogRegion(region_ref, i + 1, substitutions, silent,
                  IF r.raised = "MalformedEndpoint" THEN acc
                  ELSE Put(acc, service, r.data))

RECURSIVE CatalogFrom(_, _, _, _, _)
CatalogFrom(t, i, substitutions, silent, catalog) ==
  IF i > Len(t) THEN catalog
  ELSE CatalogFrom(t, i + 1, substitutions, silent,
                   Put(catalog, t[i][1],
                       CatalogRegion(t[i][2], 1, substitutions, silent,
                                     EmptyDict)))

\* lines 128-135: the substitutions and the tolerated missing keys
Substitutions(user_id, tenant_id) ==
  LET base == Put(CONF, sUserId, user_id) IN
  IF Truthy(tenant_id) THEN Put(base, sTenantId, tenant_id) ELSE base

SilentKeys(tenant_id) == IF Truthy(tenant_id) THEN {} ELSE {sTenantId}

get_catalog(t, user_id, tenant_id) ==
  [raised |-> "none",
   value |-> CatalogFrom(t, 1, Substitutions(user_id, tenant_id),
                         SilentKeys(tenant_id), EmptyDict)]

list_regions(t) ==
  [i \in 1..Len(t) |->
     [id |-> t[i][1], description |-> << >>, parent_region_id |-> << >>]]

\* line.split('URL')[0] when 'URL' in line, else None
extract_interface_from_string(line) ==
  IF Contains(line, sURL) THEN Split(line, sURL)[1] ELSE None

\* the first loop over service_ref of list_endpoints, from item i on:
\* <<dict, interfaces>>
RECURSIVE EndpointKeys(_, _, _, _)
EndpointKeys(service_ref, i, dict, interfaces) ==
  IF i > Len(service_ref) THEN <<dict, interfaces>>
  ELSE
    LET k == service_ref[i][1]
        v == service_ref[i][2]
    IN
    IF InList(k, endpoint_properties)
    THEN EndpointKeys(service_ref, i + 1, (Str(k) :> v) @@ dict, interfaces)
    ELSE IF extract_interface_from_string(k) # None
    THEN EndpointKeys(service_ref, i + 1, dict, Put(interfaces, k, v))
    ELSE EndpointKeys(service_ref, i + 1, dict, interfaces)

\* as EndpointsOf, but a service without 'name' gives no endpoint
RECURSIVE EndpointsOfSkipsNameless(_, _, _, _, _, _, _)
EndpointsOfSkipsNameless(region, service, service_ref, interfaces, i, dict, acc) ==
  IF i > Len(interfaces) THEN [raised |-> "none", value |-> acc]
  ELSE IF ~Has(service_ref, sName) THEN [raised |-> "none", value |-> acc]
  ELSE
    LET name == Get(service_ref, sName)
        interface == extract_interface_from_string(interfaces[i][1])
        endpoint_id == uuid5(region \o service \o name \o interface)
        d == [dict EXCEPT !.id = endpoint_id,
                          !.legacy_endpoint_id = endpoint_id,
                          !.interface = interface,
                          !.url = interfaces[i][2]]
    IN
    EndpointsOfSkipsNameless(region, service, service_ref, interfaces, i + 1,
                             d, Append(acc, d))

\* the second loop, over interfaces, from item i on; dict is carried from
\* one interface to the next and copied into the list
RECURSIVE EndpointsOf(_, _, _, _, _, _, _)
EndpointsOf(region, service, service_ref, interfaces, i, dict, acc) ==
  IF i > Len(interfaces) THEN [raised |-> "none", value |-> acc]
  ELSE IF ~Has(service_ref, sName) THEN [raised |-> "KeyError", value |-> acc]
  ELSE
    LET name == Get(service_ref, sName)
        interface == extract_interface_from_string(interfaces[i][1])
        endpoint_id == uuid5(region \o service \o name \o interface)
        d == [dict EXCEPT !.id = endpoint_id,
                          !.legacy_endpoint_id = endpoint_id,
                          !.interface = interface,
                          !.url = interfaces[i][2]]
    IN
    EndpointsOf(region, service, service_ref, interfaces, i + 1, d,
                Append(acc, d))

\* the loops of list_endpoints over regions (r) and services (s)
RECURSIVE EndpointsFrom(_, _, _, _)
EndpointsFrom(t, r, s, acc) ==
  IF r > Len(t) THEN [raised |-> "none", value |-> acc]
  ELSE IF s > Len(t[r][2]) THEN EndpointsFrom(t, r + 1, 1, acc)
  ELSE
    LET region == t[r][1]
        service == t[r][2][s][1]
        service_ref == t[r][2][s][2]
        dict0 == [id |-> << >>, region |-> region, region_id |-> region,
                  enabled |-> PyTrue, legacy_endpoint_id |-> << >>,
                  service_id |-> uuid5(service)]
        ki == EndpointKeys(service_ref, 1, dict0, EmptyDict)
        \* 'interface' and 'url' are set before the first copy
        dict1 == ki[1] @@ [interface |-> << >>, url |-> << >>]
        got == EndpointsOf(region, service, service_ref, ki[2], 1, dict1, acc)
    IN
    IF got.raised # "none" THEN [raised |-> got.raised, value |-> << >>]
    ELSE EndpointsFrom(t, r, s + 1, got.value)

list_endpoints(t) == EndpointsFrom(t, 1, 1, << >>)

RECURSIVE FirstWithId(_, _, _)
FirstWithId(list, id, i) ==
  IF i > Len(list) THEN 0
  ELSE IF list[i].id = id THEN i
  ELSE FirstWithId(list, id, i + 1)

get_endpoint(t, endpoint_id) ==
  LET endpoint_list == list_endpoints(t) IN
  IF endpoint_list.raised # "none"
  THEN [raised |-> endpoint_list.raised, value |-> None]
  ELSE
    LET i == FirstWithId(endpoint_list.value, endpoint_id, 1) IN
    IF i = 0 THEN [raised |-> "EndpointNotFound", value |-> None]
    ELSE [raised |-> "none", value |-> endpoint_list.value[i]]

\* the loop over service_ref of list_services, from item i on
RECURSIVE ServiceKeys(_, _, _)
ServiceKeys(service_ref, i, dict) ==
  IF i > Len(service_ref) THEN dict
  ELSE ServiceKeys(service_ref, i + 1,
                   IF InList(service_ref[i][1], service_properties)
                   THEN (Str(service_ref[i][1]) :> service_ref[i][2]) @@ dict
                   ELSE dict)

\* the loops of list_services over regions (r) and services (s);
\* service_dict[service] = dict overwrites an earlier region's entry
RECURSIVE ServicesFrom(_, _, _, _)
ServicesFrom(t, r, s, service_dict) ==
  IF r > Len(t) THEN service_dict
  ELSE IF s > Len(t[r][2]) THEN ServicesFrom(t, r + 1, 1, service_dict)
  ELSE
    LET service == t[r][2][s][1]
        dict0 == [id |-> uuid5(service), type |-> service,
                  enabled |-> PyTrue, description |-> << >>]
    IN
    ServicesFrom(t, r, s + 1,
                 Put(service_dict, service,
                     ServiceKeys(t[r][2][s][2], 1, dict0)))

list_services(t) ==
  LET service_dict == ServicesFrom(t, 1, 1, EmptyDict) IN
  [i \in 1..Len(service_dict) |-> service_dict[i][2]]

get_service(t, service_id) ==
  LET service_list == list_services(t)
      i == FirstWithId(service_list, service_id, 1)
  IN
  IF i = 0 THEN [raised |-> "ServiceNotFound", value |-> None]
  ELSE [raised |-> "none", value |-> service_list[i]]

\* create_region, delete_region, update_region, create_endpoint,
\* update_endpoint, delete_endpoint, create_service, update_service,
\* delete_service: raise exception.NotImplemented()
MutationOps ==
  {"create_region", "delete_region", "update_region",
   "create_endpoint", "update_endpoint", "delete_endpoint",
   "create_service", "update_service", "delete_service"}

NotImplementedOutcome == [raised |-> "NotImplemented", value |-> None]

\* as delete_region, but the region is dropped from the template
DeleteRegionDeletes(t, region_id) ==
  [outcome |-> [raised |-> "none", value |-> None],
   templates |-> SelectSeq(t, LAMBDA e : e[1] # region_id)]

create_region(t, region) == [outcome |-> NotImplementedOutcome, templates |-> t]
delete_region(t, region_id) == [outcome |-> NotImplementedOutcome, templates |-> t]
update_region(t, region_id) == [outcome |-> NotImplementedOutcome, templates |-> t]
create_endpoint(t, endpoint_id) == [outcome |-> NotImplementedOutcome, templates |-> t]
update_endpoint(t, endpoint_id) == [outcome |-> NotImplementedOutcome, templates |-> t]
delete_endpoint(t, endpoint_id) == [outcome |-> NotImplementedOutcome, templates |-> t]
create_service(t, service_id) == [outcome |-> NotImplementedOutcome, templates |-> t]
update_service(t, service_id) == [outcome |-> NotImplementedOutcome, templates |-> t]
delete_service(t, service_id) == [outcome |-> NotImplementedOutcome, templates |-> t]

----------------------------------------------------------------------------
(* Endpoint filter: the driver's store and the collaborators of Manager    *)

\* resource_api: the projects that exist
Projects == {"p1"}

\* resource_api.get_project(project_id)
get_project(project_id) ==
  IF project_id \in Projects THEN "none" ELSE "ProjectNotFound"

\* a filter value is a str, <<"str", text>>, or a list of them,
\* <<"list", <<text, ...>>>>
IsList(value) == value[1] = "list"

\* driver.get_endpoint_group(endpoint_group_id)
get_endpoint_group(groups, endpoint_group_id) ==
  IF Has(groups, endpoint_group_id)
  THEN [raised |-> "none",
        value |-> [id |-> endpoint_group_id,
                   filters |-> Get(groups, endpoint_group_id)]]
  ELSE [raised |-> "EndpointGroupNotFound", value |-> None]

\* driver.list_endpoints_for_project(project_id): the endpoint_id of each ref
driver_list_endpoints_for_project(store, project_id) ==
  {a[2] : a \in {b \in store : b[1] = project_id}}

\* driver.list_endpoint_groups_for_project(project_id): the
\* endpoint_group_id of each ref, in the driver's order
list_endpoint_groups_for_project(gstore, order, project_id) ==
  SelectSeq(order, LAMBDA g : <<g, project_id>> \in gstore)

\* driver.remove_endpoint_from_project(endpoint_id, project_id)
remove_endpoint_from_project(store, endpoint_id, project_id) ==
  IF <<project_id, endpoint_id>> \in store
  THEN [raised |-> "none", store |-> store \ {<<project_id, endpoint_id>>}]
  ELSE [raised |-> "NotFound", store |-> store]

----------------------------------------------------------------------------
(* Manager                                                                 *)

\* the list comprehension of _get_endpoint_groups_for_project over refs
RECURSIVE FetchGroups(_, _, _, _)
FetchGroups(groups, group_ids, i, acc) ==
  IF i > Len(group_ids) THEN [raised |-> "none", value |-> acc]
  ELSE
    LET g == get_endpoint_group(groups, group_ids[i]) IN
    IF g.raised # "none" THEN [raised |-> g.raised, value |-> << >>]
    ELSE FetchGroups(groups, group_ids, i + 1, Append(acc, g.value))

\* as get_endpoint_groups_for_project, but a group that is not found is
\* left out and the groups that are found are kept
get_endpoint_groups_skipping_missing(groups, project_id, group_ids) ==
  IF project_id = "" THEN [raised |-> "none", value |-> << >>]
  ELSE IF get_project(project_id) # "none"
  THEN [raised |-> get_project(project_id), value |-> << >>]
  ELSE FetchGroups(groups, SelectSeq(group_ids, LAMBDA g : Has(groups, g)),
                   1, << >>)

\* _get_endpoint_groups_for_project, the driver listing the project's group
\* refs in the order group_ids
get_endpoint_groups_for_project(groups, project_id, group_ids) ==
  IF project_id = "" THEN [raised |-> "none", value |-> << >>]
  ELSE IF get_project(project_id) # "none"
  THEN [raised |-> get_project(project_id), value |-> << >>]
  ELSE
    LET fetched == FetchGroups(groups, group_ids, 1, << >>) IN
    IF fetched.raised = "EndpointGroupNotFound"
    THEN [raised |-> "none", value |-> << >>]
    ELSE fetched

\* as IsCandidate, but only the first filter key is tested
IsCandidateFirstKeyOnly(endpoint, filters, i) ==
  IF i > Len(filters) THEN "yes"
  ELSE
    LET key == filters[i][1]
        value == IF IsList(filters[i][2]) THEN filters[i][2][2]
                 ELSE <<filters[i][2][2]>>
    IN
    IF key \notin DOMAIN endpoint THEN "KeyError"
    ELSE IF ~InList(endpoint[key], value) THEN "no"
    ELSE "yes"

\* the loop over filters.items() for one endpoint, from item i on:
\* "yes", "no" (break) or "KeyError" (endpoint[key])
RECURSIVE IsCandidate(_, _, _)
IsCandidate(endpoint, filters, i) ==
  IF i > Len(filters) THEN "yes"
  ELSE
    LET key == filters[i][1]
        value == IF IsList(filters[i][2]) THEN filters[i][2][2]
                 ELSE <<filters[i][2][2]>>
    IN
    IF key \notin DOMAIN endpoint THEN "KeyError"
    ELSE IF ~InList(endpoint[key], value) THEN "no"
    ELSE IsCandidate(endpoint, filters, i + 1)

\* the loop over endpoints, from item i on
RECURSIVE FilterFrom(_, _, _, _)
FilterFrom(endpoints, filters, i, filtered_endpoints) ==
  IF i > Len(endpoints) THEN [raised |-> "none", value |-> filtered_endpoints]
  ELSE
    LET is_candidate == IsCandidate(endpoints[i], filters, 1) IN
    IF is_candidate = "KeyError" THEN [raised |-> "KeyError", value |-> << >>]
    ELSE FilterFrom(endpoints, filters, i + 1,
                    IF is_candidate = "yes"
                    THEN Append(filtered_endpoints, endpoints[i])
                    ELSE filtered_endpoints)

\* _get_endpoints_filtered_by_endpoint_group
get_endpoints_filtered_by_endpoint_group(t, groups, endpoint_group_id) ==
  LET endpoints == list_endpoints(t)
      group == get_endpoint_group(groups, endpoint_group_id)
  IN
  IF endpoints.raised # "none" THEN [raised |-> endpoints.raised, value |-> << >>]
  ELSE IF group.raised # "none" THEN [raised |-> group.raised, value |-> << >>]
  ELSE FilterFrom(endpoints.value, group.value.filters, 1, << >>)

\* as MergeRefs, but without the test of line 128
RECURSIVE MergeRefsOverwrites(_, _, _)
MergeRefsOverwrites(filtered_endpoints, endpoint_refs, i) ==
  IF i > Len(endpoint_refs) THEN filtered_endpoints
  ELSE MergeRefsOverwrites(Put(filtered_endpoints, endpoint_refs[i].id,
                               endpoint_refs[i]),
                           endpoint_refs, i + 1)

\* lines 127-129: endpoint_refs merged into filtered_endpoints, from item i on
RECURSIVE MergeRefs(_, _, _)
MergeRefs(filtered_endpoints, endpoint_refs, i) ==
  IF i > Len(endpoint_refs) THEN filtered_endpoints
  ELSE MergeRefs(IF Has(filtered_endpoints, endpoint_refs[i].id)
                 THEN filtered_endpoints
                 ELSE Put(filtered_endpoints, endpoint_refs[i].id,
                          endpoint_refs[i]),
                 endpoint_refs, i + 1)

\* lines 122-129: the loop over endpoint_groups, from item i on
RECURSIVE MergeGroups(_, _, _, _, _)
MergeGroups(t, groups, filtered_endpoints, fetched, i) ==
  IF i > Len(fetched) THEN [raised |-> "none", value |-> filtered_endpoints]
  ELSE
    LET endpoint_refs ==
          get_endpoints_filtered_by_endpoint_group(t, groups, fetched[i].id)
    IN
    IF endpoint_refs.raised # "none"
    THEN [raised |-> endpoint_refs.raised, value |-> EmptyDict]
    ELSE MergeGroups(t, groups,
                     MergeRefs(filtered_endpoints, endpoint_refs.value, 1),
                     fetched, i + 1)

\* lines 119-131 of list_endpoints_for_project, the driver listing the
\* project's group refs in the order group_ids
resolve_groups(t, groups, filtered_endpoints, project_id, group_ids) ==
  LET fetched ==
        get_endpoint_groups_for_project(groups, project_id, group_ids)
  IN
  IF fetched.raised # "none"
  THEN [raised |-> fetched.raised, value |-> EmptyDict, at |-> "groups"]
  ELSE
    LET merged == MergeGroups(t, groups, filtered_endpoints, fetched.value, 1)
    IN [raised |-> merged.raised, value |-> merged.value, at |-> "groups"]

\* as visit_ref, but a stale association is left in the store
visit_ref_without_removal(t, store, filtered_endpoints, endpoint_id, project_id) ==
  LET endpoint == get_endpoint(t, endpoint_id) IN
  IF endpoint.raised = "none"
  THEN [raised |-> "none",
        filtered |-> Put(filtered_endpoints, endpoint_id, endpoint.value),
        store |-> store, removed |-> << >>]
  ELSE IF endpoint.raised = "EndpointNotFound"
  THEN [raised |-> "none", filtered |-> filtered_endpoints,
        store |-> store, removed |-> << >>]
  ELSE [raised |-> endpoint.raised, filtered |-> filtered_endpoints,
        store |-> store, removed |-> << >>]

\* as visit_ref, but the removal is called with its arguments swapped
visit_ref_swapped_arguments(t, store, filtered_endpoints, endpoint_id, project_id) ==
  LET endpoint == get_endpoint(t, endpoint_id) IN
  IF endpoint.raised = "none"
  THEN [raised |-> "none",
        filtered |-> Put(filtered_endpoints, endpoint_id, endpoint.value),
        store |-> store, removed |-> << >>]
  ELSE IF endpoint.raised = "EndpointNotFound"
  THEN
    LET rm == remove_endpoint_from_project(store, project_id, endpoint_id) IN
    [raised |-> rm.raised, filtered |-> filtered_endpoints,
     store |-> rm.store, removed |-> << <<project_id, endpoint_id>> >>]
  ELSE [raised |-> endpoint.raised, filtered |-> filtered_endpoints,
        store |-> store, removed |-> << >>]

\* as visit_ref, but the project is looked up before a removal is issued
visit_ref_after_project_check(t, store, filtered_endpoints, endpoint_id, project_id) ==
  LET endpoint == get_endpoint(t, endpoint_id) IN
  IF endpoint.raised = "none"
  THEN [raised |-> "none",
        filtered |-> Put(filtered_endpoints, endpoint_id, endpoint.value),
        store |-> store, removed |-> << >>]
  ELSE IF endpoint.raised = "EndpointNotFound"
  THEN
    IF project_id # "" /\ get_project(project_id) # "none"
    THEN [raised |-> get_project(project_id), filtered |-> filtered_endpoints,
          store |-> store, removed |-> << >>]
    ELSE
      LET rm == remove_endpoint_from_project(store, endpoint_id, project_id)
      IN [raised |-> rm.raised, filtered |-> filtered_endpoints,
          store |-> rm.store, removed |-> << <<endpoint_id, project_id>> >>]
  ELSE [raised |-> endpoint.raised, filtered |-> filtered_endpoints,
        store |-> store, removed |-> << >>]

\* lines 111-117 for one ref: [raised, filtered, store, removed]; removed is
\* the removal call issued, if any
visit_ref(t, store, filtered_endpoints, endpoint_id, project_id) ==
  LET endpoint == get_endpoint(t, endpoint_id) IN
  IF endpoint.raised = "none"
  THEN [raised |-> "none",
        filtered |-> Put(filtered_endpoints, endpoint_id, endpoint.value),
        store |-> store, removed |-> << >>]
  ELSE IF endpoint.raised = "EndpointNotFound"
  THEN
    LET rm == remove_endpoint_from_project(store, endpoint_id, project_id) IN
    [raised |-> rm.raised, filtered |-> filtered_endpoints,
     store |-> rm.store, removed |-> << <<endpoint_id, project_id>> >>]
  ELSE [raised |-> endpoint.raised, filtered |-> filtered_endpoints,
        store |-> store, removed |-> << >>]

----------------------------------------------------------------------------
(* EndpointFilterCatalog                                                   *)

\* CONF.items(): the options of CONF that are in no group
CONF_items == SubSeq(CONF, 1, 1)

\* a project id as the text substituted for tenant_id
Chars(project_id) ==
  CASE project_id = "" -> << >>
    [] project_id = "p1" -> <<"p", "1">>
    [] project_id = "p2" -> <<"p", "2">>

\* lines 33-34
V3Substitutions(user_id, project_id) ==
  Put(Put(CONF_items, sTenantId, Chars(project_id)), sUserId, user_id)

\* lines 56-60: the keys deleted from an endpoint
DeletedKeys ==
  {"service_id", "enabled", "legacy_endpoint_id", "region_id", "id"}

\* lines 43-44: what the call of the parent class returns, not looked into
SuperV3Catalog == <<"super().get_v3_catalog">>

\* lines 46-72: the loop over dict_of_endpoint_refs.items(), from item i on;
\* services maps a service_id to the service dict with its 'endpoints'
RECURSIVE V3Endpoints(_, _, _, _, _)
V3Endpoints(t, dict_of_endpoint_refs, i, substitutions, services) ==
  IF i > Len(dict_of_endpoint_refs) THEN [raised |-> "none", value |-> services]
  ELSE
    LET endpoint == dict_of_endpoint_refs[i][2]
        service_id == endpoint.service_id
        got == get_service(t, service_id)
        url == format_url(endpoint.url, substitutions, {})
    IN
    IF ~Truthy(endpoint.enabled)
    THEN V3Endpoints(t, dict_of_endpoint_refs, i + 1, substitutions, services)
    ELSE IF got.raised # "none" THEN [raised |-> got.raised, value |-> services]
    ELSE IF url.raised # "none" THEN [raised |-> url.raised, value |-> services]
    ELSE
      LET service == GetOr(services, service_id, got.value)
          stripped == [k \in DOMAIN endpoint \ DeletedKeys |-> endpoint[k]]
          emitted == [stripped EXCEPT !.url = url.value]
          endpoints == IF "endpoints" \in DOMAIN service
                       THEN Append(service.endpoints, emitted)
                       ELSE <<emitted>>
      IN
      V3Endpoints(t, dict_of_endpoint_refs, i + 1, substitutions,
                  Put(services, service_id,
                      ("endpoints" :> endpoints) @@ service))

\* lines 74-81: the loop over services, from item i on
RECURSIVE FormatV3(_, _, _)
FormatV3(services, i, catalog) ==
  IF i > Len(services) THEN [raised |-> "none", value |-> catalog]
  ELSE
    LET service == services[i][2] IN
    IF {"type", "name", "description", "endpoints"} \subseteq DOMAIN service
    THEN FormatV3(services, i + 1,
                  Append(catalog,
                         [type |-> service.type, name |-> service.name,
                          description |-> service.description,
                          endpoints |-> service.endpoints]))
    ELSE [raised |-> "KeyError", value |-> << >>]

\* EndpointFilterCatalog.get_v3_catalog, resolved being what the call of
\* list_endpoints_for_project at lines 38-39 returned or raised
get_v3_catalog(t, resolved, user_id, project_id, return_all_endpoints_if_no_filter) ==
  LET substitutions == V3Substitutions(user_id, project_id)
      dict_of_endpoint_refs == resolved.value
  IN
  IF resolved.raised # "none"
  THEN [raised |-> resolved.raised, value |-> << >>]
  ELSE IF dict_of_endpoint_refs = EmptyDict /\ return_all_endpoints_if_no_filter
  THEN [raised |-> "none", value |-> SuperV3Catalog]
  ELSE
    LET services == V3Endpoints(t, dict_of_endpoint_refs, 1, substitutions,
                                EmptyDict)
    IN
    IF services.raised # "none"
    THEN [raised |-> services.raised, value |-> << >>]
    ELSE FormatV3(services.value, 1, << >>)

----------------------------------------------------------------------------
(* Inputs                                                                  *)

MaxLines == 3
MaxCalls == 2
MaxFilterKeys == 2
MaxGroups == 2

sCatalog == <<"c", "a", "t", "a", "l", "o", "g">>
kPub == <<"p">> \o sURL
kAdm == <<"a">> \o sURL
kInt == <<"i">> \o sURL

\* template lines as read from the file, each with its line end
Lines ==
  { \* catalog.R.s_1.name = N
    sCatalog \o <<".", "R", ".", "s", "_", "1", ".">> \o sName \o SepChars
      \o <<"N", "\n">>,
    \* catalog.R.s_1.name = M
    sCatalog \o <<".", "R", ".", "s", "_", "1", ".">> \o sName \o SepChars
      \o <<"M", "\n">>,
    \* catalog.Q.t.pURL = u
    sCatalog \o <<".", "Q", ".", "t", ".">> \o kPub \o SepChars
      \o <<"u", "\n">>,
    \* # x
    <<"#", " ", "x", "\n">>,
    \* y.z = w
    <<"y", ".", "z">> \o SepChars \o <<"w", "\n">>,
    \* catalog.R.s = v
    sCatalog \o <<".", "R", ".", "s">> \o SepChars \o <<"v", "\n">>,
    \* catalog.R.s.a = b = c
    sCatalog \o <<".", "R", ".", "s", ".", "a">> \o SepChars \o <<"b">>
      \o SepChars \o <<"c", "\n">> }

LineSeqs == UNION {[1..n -> Lines] : n \in 0..MaxLines}

vPlain == <<"u">>
vHost == <<"h", ":", "$", "(", "h", ")", "s">>
vTenant == <<"t", "/", "$", "(">> \o sTenantId \o <<")", "s">>
vMissing == <<"$", "(", "x", ")", "s">>
vEmpty == <<"$", "(", "e", ")", "s">>

\* two regions; service c of region R has a URL whose placeholder x is in
\* no context, service i of region Q a URL that formats to the empty string
TplMain ==
  << << <<"R">>,
        << << <<"i">>, << <<sName, <<"I">>>>, <<kPub, vHost>>,
                          <<kAdm, vTenant>> >> >>,
           << <<"c">>, << <<sName, <<"C">>>>, <<kInt, vPlain>>,
                          <<kPub, vMissing>> >> >> >> >>,
     << <<"Q">>,
        << << <<"i">>, << <<sName, <<"J">>>>, <<kPub, vEmpty>> >> >> >> >> >>

\* region a with service bc and region ab with service c, of the same name:
\* their public endpoints have the same id
TplCollide ==
  << << <<"a">>,
        << << <<"b", "c">>, << <<sName, <<"N">>>>, <<kPub, vPlain>> >> >> >> >>,
     << <<"a", "b">>,
        << << <<"c">>, << <<sName, <<"N">>>>, <<kPub, vHost>>,
                          <<kAdm, vPlain>> >> >> >> >> >>

\* a service that sets 'enabled' and a service without URL keys
TplPlain ==
  << << <<"R">>,
        << << <<"i">>, << <<sName, <<"I">>>>,
                          <<<<"e", "n", "a", "b", "l", "e", "d">>, <<"n">>>>,
                          <<kPub, vTenant>> >> >>,
           << <<"d">>, << <<<<"x">>, vMissing>> >> >> >> >> >>

\* service i declares a URL and no name, service d neither
TplNoName ==
  << << <<"R">>,
        << << <<"d">>, << <<<<"x">>, vPlain>> >> >>,
           << <<"i">>, << <<kPub, vPlain>> >> >> >> >> >>

\* service i with two endpoints, one of them for a project; service d
\* disabled, its 'enabled' being the empty string
TplV3 ==
  << << <<"R">>,
        << << <<"i">>, << <<sName, <<"I">>>>, <<kPub, vPlain>>,
                          <<kAdm, vTenant>> >> >>,
           << <<"d">>, << <<sName, <<"D">>>>,
                          <<<<"e", "n", "a", "b", "l", "e", "d">>, << >>>>,
                          <<kPub, vPlain>> >> >> >> >> >>

\* service i has its endpoint in region R and an entry without 'name' and
\* without URL key in region Q
TplLastWins ==
  << << <<"R">>,
        << << <<"i">>, << <<sName, <<"I">>>>, <<kPub, vPlain>> >> >> >> >>,
     << <<"Q">>,
        << << <<"i">>,
              << <<<<"d", "e", "s", "c", "r", "i", "p", "t", "i", "o", "n">>,
                   <<"x">>>> >> >> >> >> >>

CatalogTemplates == {TplMain, TplCollide, TplPlain, TplNoName}
ResolverTemplates == {TplMain, TplCollide}

UserIds == {<<"u">>, <<"v">>}
TenantIds == {None, <<"t">>}
RegionIds == {<<"R">>, <<"Z">>}
ServiceIds == {uuid5(<<"i">>), uuid5(<<"z">>)}

idMainPub == uuid5(<<"R", "i", "I", "p">>)
idCollide == uuid5(<<"a", "b", "c", "N", "p">>)
idGone == uuid5(<<"g", "o", "n", "e">>)
idStale == uuid5(<<"s", "t", "a", "l", "e">>)
EndpointIds == {idMainPub, idCollide, idGone}

ProjectIds == {"", "p1", "p2"}

\* "p1" exists and "p2" does not (Projects)
AssocUniverse ==
  {<<"p1", idMainPub>>, <<"p1", idCollide>>, <<"p1", idGone>>,
   <<"p2", idGone>>}

GroupAssocUniverse ==
  {<<"g_pub", "p1">>, <<"g_all", "p1">>, <<"g_two", "p1">>,
   <<"g_name", "p1">>, <<"g_gone", "p1">>}

\* the orders in which the driver may list the groups
GroupOrders ==
  { <<"g_pub", "g_all", "g_two", "g_name", "g_gone">>,
    <<"g_gone", "g_name", "g_two", "g_all", "g_pub">> }

\* the group associations of a store: at most MaxGroups of them
GroupAssocs == {S \in SUBSET GroupAssocUniverse : Cardinality(S) <= MaxGroups}

\* the endpoint groups of the store: filters on one attribute, on none, on
\* two attributes with lists of accepted values, and on an attribute that
\* endpoints do not have; g_gone is associated with projects and not stored
StoredGroups ==
  << <<"g_pub", << <<"interface", <<"str", <<"p">>>>>> >> >>,
     <<"g_all", EmptyDict>>,
     <<"g_two", << <<"region_id", <<"list", << <<"Q">>, <<"a", "b">> >> >> >>,
                   <<"interface", <<"list", << <<"a">>, <<"p">> >> >> >> >> >>,
     <<"g_name", << <<"interface", <<"str", <<"a">>>>>>,
                    <<"name", <<"str", <<"I">>>>>> >> >> >>

Callers == {1, 2}

----------------------------------------------------------------------------
(* Initial states                                                          *)

Pending == [raised |-> "pending", value |-> None]
NoOutcome == [raised |-> "pending", value |-> EmptyDict, at |-> "none"]
NoCall == [raised |-> "pending", value |-> EmptyDict, at |-> "none",
           removed |-> << >>]

ParseIdle ==
  /\ template_lines = << >>
  /\ parsed = [raised |-> "pending", o |-> EmptyDict]

CatalogIdle ==
  /\ op = <<"none">>
  /\ ret = Pending

StoreIdle ==
  /\ endpoint_groups = EmptyDict
  /\ assoc = {}
  /\ group_assoc = {}
  /\ group_order = << >>

CallersIdle ==
  /\ pc = [p \in Callers |-> "idle"]
  /\ project = [p \in Callers |-> ""]
  /\ refs = [p \in Callers |-> {}]
  /\ filtered = [p \in Callers |-> EmptyDict]
  /\ outcome = [p \in Callers |-> NoOutcome]
  /\ removed = [p \in Callers |-> << >>]
  /\ calls = [p \in Callers |-> 0]
  /\ last = [q \in ProjectIds |-> NoCall]

----------------------------------------------------------------------------
(* parse_templates applied to a sequence of lines                          *)

InitParse ==
  /\ template_lines \in LineSeqs
  /\ parsed = [raised |-> "pending", o |-> EmptyDict]
  /\ templates = EmptyDict
  /\ CatalogIdle /\ StoreIdle /\ CallersIdle

\* Catalog._load_templates: self.templates = parse_templates(...)
LoadTemplates ==
  /\ parsed.raised = "pending"
  /\ parsed' = parse_templates(template_lines)
  /\ templates' = IF parsed'.raised = "none" THEN parsed'.o ELSE templates
  /\ UNCHANGED <<template_lines, catalogVars, storeVars, callVars>>

NextParse == LoadTemplates

SpecParse == InitParse /\ [][NextParse]_vars

----------------------------------------------------------------------------
(* The operations of Catalog on a template given to its constructor        *)

InitCatalog ==
  /\ templates \in CatalogTemplates
  /\ ParseIdle /\ CatalogIdle /\ StoreIdle /\ CallersIdle

Returns(name, value) ==
  /\ op' = name
  /\ ret' = value
  /\ UNCHANGED <<templates, parseVars, storeVars, callVars>>

Mutates(name, result) ==
  /\ op' = name
  /\ ret' = result.outcome
  /\ templates' = result.templates
  /\ UNCHANGED <<parseVars, storeVars, callVars>>

GetCatalog ==
  \E user_id \in UserIds, tenant_id \in TenantIds :
    Returns(<<"get_catalog", user_id, tenant_id>>,
            get_catalog(templates, user_id, tenant_id))

ListRegions ==
  Returns(<<"list_regions">>,
          [raised |-> "none", value |-> list_regions(templates)])

ListServices ==
  Returns(<<"list_services">>,
          [raised |-> "none", value |-> list_services(templates)])

ListEndpoints == Returns(<<"list_endpoints">>, list_endpoints(templates))

GetEndpoint ==
  \E endpoint_id \in EndpointIds :
    Returns(<<"get_endpoint", endpoint_id>>,
            get_endpoint(templates, endpoint_id))

CreateRegion ==
  \E region \in RegionIds :
    Mutates(<<"create_region", region>>, create_region(templates, region))

DeleteRegion ==
  \E region_id \in RegionIds :
    Mutates(<<"delete_region", region_id>>,
            delete_region(templates, region_id))

UpdateRegion ==
  \E region_id \in RegionIds :
    Mutates(<<"update_region", region_id>>,
            update_region(templates, region_id))

CreateEndpoint ==
  \E endpoint_id \in EndpointIds :
    Mutates(<<"create_endpoint", endpoint_id>>,
            create_endpoint(templates, endpoint_id))

UpdateEndpoint ==
  \E endpoint_id \in EndpointIds :
    Mutates(<<"update_endpoint", endpoint_id>>,
            update_endpoint(templates, endpoint_id))

DeleteEndpoint ==
  \E endpoint_id \in EndpointIds :
    Mutates(<<"delete_endpoint", endpoint_id>>,
            delete_endpoint(templates, endpoint_id))

CreateService ==
  \E service_id \in ServiceIds :
    Mutates(<<"create_service", service_id>>,
            create_service(templates, service_id))

UpdateService ==
  \E service_id \in ServiceIds :
    Mutates(<<"update_service", service_id>>,
            update_service(templates, service_id))

DeleteService ==
  \E service_id \in ServiceIds :
    Mutates(<<"delete_service", service_id>>,
            delete_service(templates, service_id))

NextCatalog ==
  \/ GetCatalog \/ ListRegions \/ ListServices \/ ListEndpoints
  \/ GetEndpoint
  \/ CreateRegion \/ DeleteRegion \/ UpdateRegion
  \/ CreateEndpoint \/ UpdateEndpoint \/ DeleteEndpoint
  \/ CreateService \/ UpdateService \/ DeleteService

SpecCatalog == InitCatalog /\ [][NextCatalog]_vars

----------------------------------------------------------------------------
(* Claims about the templated backend                                      *)

AsSet(d) == {d[i] : i \in 1..Len(d)}

\* the key and the value of a template line, and the segments of the key
LineKV(line) == Split(Strip(line), SepChars)
LineParts(line) == Split(LineKV(line)[1], <<".">>)

\* a line 'catalog.R.S.A = V'
WellFormedLine(line) ==
  /\ Contains(line, SepChars)
  /\ Len(LineKV(line)) = 2
  /\ Len(LineParts(line)) = 4
  /\ LineParts(line)[1] = sCatalog

\* C8: parse_templates fails on no sequence of lines, and every well-formed
\* line 'catalog.R.S.A = V' that no later well-formed line of the same key
\* overrides is stored as templates[R][S with '_' replaced by '-'][A] = V.
C8_ParseNeverFails ==
  parsed.raised # "pending" =>
    /\ parsed.raised = "none"
    /\ \A i \in 1..Len(template_lines) :
         LET line == template_lines[i] IN
         (/\ WellFormedLine(line)
          /\ \A j \in (i + 1)..Len(template_lines) :
               WellFormedLine(template_lines[j]) =>
                 LineParts(template_lines[j]) # LineParts(line))
         =>
           LET R == LineParts(line)[2]
               S == Replace(LineParts(line)[3], "_", "-")
               A == LineParts(line)[4]
           IN
           /\ Has(parsed.o, R)
           /\ Has(Get(parsed.o, R), S)
           /\ Has(Get(Get(parsed.o, R), S), A)
           /\ Get(Get(Get(parsed.o, R), S), A) = LineKV(line)[2]

\* the call get_catalog(user_id, tenant_id) just made, and whether the
\* substitution of some attribute of service_ref fails in it
CalledGetCatalog == op[1] = "get_catalog"
FormatIn(v) == format_url(v, Substitutions(op[2], op[3]), SilentKeys(op[3]))
SubstitutionFails(service_ref) ==
  \E i \in 1..Len(service_ref) :
    FormatIn(service_ref[i][2]).raised = "MalformedEndpoint"
Succeeded(service_ref) ==
  {<<service_ref[i][1], FormatIn(service_ref[i][2]).value>> :
     i \in {j \in 1..Len(service_ref) :
              /\ FormatIn(service_ref[j][2]).raised = "none"
              /\ Truthy(FormatIn(service_ref[j][2]).value)}}

C7_MutationsFailAndChangeNothing ==
  [][op'[1] \in MutationOps =>
       /\ ret'.raised = "NotImplemented"
       /\ list_regions(templates') = list_regions(templates)
       /\ list_services(templates') = list_services(templates)
       /\ list_endpoints(templates') = list_endpoints(templates)
       /\ \A user_id \in UserIds, tenant_id \in TenantIds :
            get_catalog(templates', user_id, tenant_id)
              = get_catalog(templates, user_id, tenant_id)]_vars

\* a mutation was called with an argument that names something of the
\* template
C7_Witness ==
  /\ op[1] \in MutationOps
  /\ ret.raised = "NotImplemented"
  /\ \E r \in 1..Len(templates) : op[2] = templates[r][1]

----------------------------------------------------------------------------
(* _get_endpoints_filtered_by_endpoint_group applied to one stored group   *)

FilterKeys == {"interface", "region_id", "name"}
FilterValues ==
  { <<"str", <<"p">>>>, <<"str", <<"R">>>>,
    <<"list", << <<"a">>, <<"p">>, <<"Q">> >> >>, <<"list", << >> >> }

\* the dicts of at most MaxFilterKeys filters
FilterDicts ==
  {f \in UNION {[1..n -> FilterKeys \X FilterValues] : n \in 0..MaxFilterKeys} :
     \A i, j \in 1..Len(f) : f[i][1] = f[j][1] => i = j}

FilterTemplates == {TplMain, TplCollide, TplPlain}

InitFilter ==
  /\ templates \in FilterTemplates
  /\ endpoint_groups \in {<< <<"g", f>> >> : f \in FilterDicts}
  /\ assoc = {}
  /\ group_assoc = {}
  /\ group_order = <<"g">>
  /\ ParseIdle /\ CatalogIdle /\ CallersIdle

FilterByGroup ==
  \E endpoint_group_id \in {"g", "g_gone"} :
    /\ op' = <<"filter", endpoint_group_id>>
    /\ ret' = get_endpoints_filtered_by_endpoint_group(
                templates, endpoint_groups, endpoint_group_id)
    /\ UNCHANGED <<templates, parseVars, storeVars, callVars>>

NextFilter == FilterByGroup

SpecFilter == InitFilter /\ [][NextFilter]_vars

----------------------------------------------------------------------------
(* list_endpoints_for_project                                              *)

SetAt(f, p, v) == [f EXCEPT ![p] = v]

\* line 108 and the start of a call
Start(p) ==
  \E project_id \in ProjectIds :
    /\ pc[p] = "idle"
    /\ calls[p] < MaxCalls
    /\ pc' = SetAt(pc, p, "loop")
    /\ calls' = SetAt(calls, p, calls[p] + 1)
    /\ project' = SetAt(project, p, project_id)
    /\ refs' = SetAt(refs, p,
                     driver_list_endpoints_for_project(assoc, project_id))
    /\ filtered' = SetAt(filtered, p, EmptyDict)
    /\ outcome' = SetAt(outcome, p, NoOutcome)
    /\ removed' = SetAt(removed, p, << >>)
    /\ UNCHANGED <<last, templates, parseVars, catalogVars, storeVars>>

\* lines 110-117: one iteration of the loop over refs
VisitRef(p) ==
  \E endpoint_id \in refs[p] :
    LET r == visit_ref(templates, assoc, filtered[p], endpoint_id, project[p])
    IN
    /\ pc[p] = "loop"
    /\ assoc' = r.store
    /\ removed' = SetAt(removed, p, removed[p] \o r.removed)
    /\ filtered' = SetAt(filtered, p, r.filtered)
    /\ refs' = SetAt(refs, p, refs[p] \ {endpoint_id})
    /\ IF r.raised = "none"
       THEN UNCHANGED <<pc, outcome>>
       ELSE /\ pc' = SetAt(pc, p, "done")
            /\ outcome' = SetAt(outcome, p,
                 [raised |-> r.raised, value |-> EmptyDict, at |-> "loop"])
    /\ UNCHANGED <<project, calls, last, templates, parseVars, catalogVars,
                   endpoint_groups, group_assoc, group_order>>

\* lines 119-131: the endpoint groups of the project and the return
ResolveGroups(p) ==
  /\ pc[p] = "loop"
  /\ refs[p] = {}
  /\ pc' = SetAt(pc, p, "done")
  /\ outcome' = SetAt(outcome, p,
       resolve_groups(templates, endpoint_groups, filtered[p], project[p],
                      list_endpoint_groups_for_project(
                        group_assoc, group_order, project[p])))
  /\ UNCHANGED <<project, refs, filtered, removed, calls, last, templates,
                 parseVars, catalogVars, storeVars>>

\* the caller has the outcome and may call again
Return(p) ==
  /\ pc[p] = "done"
  /\ pc' = SetAt(pc, p, "idle")
  /\ last' = SetAt(last, project[p],
                   [raised |-> outcome[p].raised, value |-> outcome[p].value,
                    at |-> outcome[p].at, removed |-> removed[p]])
  /\ UNCHANGED <<project, refs, filtered, outcome, removed, calls, templates,
                 parseVars, catalogVars, storeVars>>

Step(p) == Start(p) \/ VisitRef(p) \/ ResolveGroups(p) \/ Return(p)

\* one caller at a time
Init ==
  /\ templates \in ResolverTemplates
  /\ endpoint_groups = StoredGroups
  /\ assoc \in SUBSET AssocUniverse
  /\ group_assoc \in GroupAssocs
  /\ group_order \in GroupOrders
  /\ ParseIdle /\ CatalogIdle /\ CallersIdle

Next == Step(1)

Spec == Init /\ [][Next]_vars

\* two callers, their steps interleaved
NextConc == \E p \in Callers : Step(p)

\* a store where "p1" has up to two stale associations
InitConc ==
  /\ templates = TplMain
  /\ endpoint_groups = StoredGroups
  /\ assoc \in SUBSET {a \in AssocUniverse : a[1] = "p1"}
  /\ group_assoc \in {{}, {<<"g_pub", "p1">>}}
  /\ group_order \in GroupOrders
  /\ ParseIdle /\ CatalogIdle /\ CallersIdle

SpecConc == InitConc /\ [][NextConc]_vars

\* a store where "p2", which does not exist, has up to two stale
\* associations, and where the empty project id has associations too
RemovalAssocs ==
  {<<"p2", idGone>>, <<"p2", idStale>>, <<"p2", idMainPub>>, <<"", idGone>>,
   <<"p1", idGone>>}

RemovalGroupAssocs ==
  SUBSET {<<"g_all", "">>, <<"g_all", "p2">>, <<"g_pub", "p1">>}

InitRemoval ==
  /\ templates = TplMain
  /\ endpoint_groups = StoredGroups
  /\ assoc \in SUBSET RemovalAssocs
  /\ group_assoc \in RemovalGroupAssocs
  /\ group_order = <<"g_pub", "g_all">>
  /\ ParseIdle /\ CatalogIdle /\ CallersIdle

SpecRemoval == InitRemoval /\ [][Next]_vars

----------------------------------------------------------------------------
(* The catalog and the endpoint filter behind one project                  *)

ProjectTemplates == {TplMain, TplNoName, TplV3, TplLastWins}

\* the group associations of "p1": none, the group of every endpoint, and a
\* group that is not stored next to one that is
ProjectGroupAssocs ==
  { {}, {<<"g_all", "p1">>}, {<<"g_gone", "p1">>, <<"g_pub", "p1">>} }

\* "p1" with an endpoint of the catalog and a stale one, "p2" with a stale one
ProjectAssocs == {<<"p1", idMainPub>>, <<"p1", idGone>>, <<"p2", idGone>>}

InitProject ==
  /\ templates \in ProjectTemplates
  /\ endpoint_groups = StoredGroups
  /\ assoc \in SUBSET ProjectAssocs
  /\ group_assoc \in ProjectGroupAssocs
  /\ group_order = <<"g_gone", "g_all", "g_pub">>
  /\ ParseIdle /\ CatalogIdle /\ CallersIdle

\* EndpointFilterCatalog.get_v3_catalog(user_id, project_id): lines 41-83,
\* once the call of list_endpoints_for_project at lines 38-39 is over;
\* CONF.endpoint_filter.return_all_endpoints_if_no_filter is read at line 42
GetV3Catalog(p) ==
  \E user_id \in UserIds, return_all_endpoints_if_no_filter \in BOOLEAN :
    /\ pc[p] = "done"
    /\ pc' = SetAt(pc, p, "v3")
    /\ op' = <<"get_v3_catalog", user_id, project[p],
               return_all_endpoints_if_no_filter>>
    /\ ret' = get_v3_catalog(templates, outcome[p], user_id, project[p],
                             return_all_endpoints_if_no_filter)
    /\ UNCHANGED <<project, refs, filtered, outcome, removed, calls, last,
                   templates, parseVars, storeVars>>

\* the caller of get_v3_catalog has the catalog and may call again
ReturnV3(p) ==
  /\ pc[p] = "v3"
  /\ pc' = SetAt(pc, p, "idle")
  /\ UNCHANGED <<project, refs, filtered, outcome, removed, calls, last,
                 templates, parseVars, catalogVars, storeVars>>

NextProject ==
  \/ ListEndpoints
  \/ GetEndpoint
  \/ Step(1)
  \/ GetV3Catalog(1)
  \/ ReturnV3(1)

SpecProject == InitProject /\ [][NextProject]_vars

----------------------------------------------------------------------------
(* Claims about the endpoint filter                                        *)

\* the endpoints of the catalog, when list_endpoints does not raise
CatalogEndpoints ==
  LET l == list_endpoints(templates) IN
  IF l.raised = "none" THEN {l.value[i] : i \in 1..Len(l.value)} ELSE {}
CatalogIds == {e.id : e \in CatalogEndpoints}

\* the accepted set of a filter value, and AND across keys, OR within a key
Accepted(value) ==
  IF IsList(value) THEN {value[2][i] : i \in 1..Len(value[2])}
  ELSE {value[2]}
Matches(e, filters) ==
  \A i \in 1..Len(filters) :
    /\ filters[i][1] \in DOMAIN e
    /\ e[filters[i][1]] \in Accepted(filters[i][2])

CalledFilter ==
  /\ op[1] = "filter"
  /\ Has(endpoint_groups, op[2])
  /\ list_endpoints(templates).raised = "none"
Included(e) == ret.raised = "none" /\ InList(e, ret.value)

\* C4: an endpoint of the catalog is in the list returned by
\* _get_endpoints_filtered_by_endpoint_group if and only if, for every key of
\* the group's filters, its value at that key is in the accepted set of the
\* key; a group with empty filters returns every endpoint of the catalog.
C4_IncludedIffEveryKeyAccepts ==
  CalledFilter =>
    /\ \A e \in CatalogEndpoints :
         Included(e) <=> Matches(e, Get(endpoint_groups, op[2]))
    /\ Get(endpoint_groups, op[2]) = EmptyDict =>
         /\ ret.raised = "none"
         /\ ret.value = list_endpoints(templates).value

\* a filter of two keys, one with a list of accepted values, that includes
\* one endpoint and leaves out another
C4_Witness ==
  /\ CalledFilter
  /\ Len(Get(endpoint_groups, op[2])) = 2
  /\ \E i \in 1..2 : IsList(Get(endpoint_groups, op[2])[i][2])
  /\ \E e1, e2 \in CatalogEndpoints : Included(e1) /\ ~Included(e2)

\* C5: the matching never fails, also when a filter key names an attribute
\* the endpoints do not have: those endpoints are left out and the others
\* are returned.
C5_MatchingNeverFails ==
  CalledFilter =>
    /\ ret.raised = "none"
    /\ \A e \in CatalogEndpoints :
         Included(e) <=> Matches(e, Get(endpoint_groups, op[2]))

\* the project's direct associations that exist in the catalog
DirectIds(q) == driver_list_endpoints_for_project(assoc, q) \cap CatalogIds
StaleIds(q) == driver_list_endpoints_for_project(assoc, q) \ CatalogIds

\* the ids of the endpoints matching the filters of group g
MatchedBy(g) ==
  {e.id : e \in {x \in CatalogEndpoints : Matches(x, Get(endpoint_groups, g))}}
AssociatedGroups(q) == {a[1] : a \in {b \in group_assoc : b[2] = q}}
AnyGroupMissing(q) == ~(AssociatedGroups(q) \subseteq KeySet(endpoint_groups))

\* a call that returned a mapping
Returned(p) == pc[p] = "done" /\ outcome[p].raised = "none"
\* a call that reached line 119
LoopCompleted(p) == pc[p] = "done" /\ outcome[p].at = "groups"

DirectRecordsKept(p) ==
  \A id \in DirectIds(project[p]) :
    /\ Has(outcome[p].value, id)
    /\ Get(outcome[p].value, id) = get_endpoint(templates, id).value

C2_OnlyStaleAssociationsRemoved ==
  /\ [](\A p \in Callers :
          /\ LoopCompleted(p) => StaleIds(project[p]) = {}
          /\ Returned(p) => KeySet(outcome[p].value) \subseteq CatalogIds)
  /\ [][/\ assoc' \subseteq assoc
        /\ \A a \in assoc \ assoc' :
             \E p \in Callers :
               /\ pc[p] = "loop"
               /\ a[1] = project[p]
               /\ a[2] \notin CatalogIds
               /\ removed'[p] = Append(removed[p], <<a[2], a[1]>>)]_vars

\* a resolution that removed a stale association and returned, while the
\* same stale endpoint is still associated with another project and an
\* association of its own project is kept
C2_Witness ==
  \E p \in Callers :
    /\ Returned(p)
    /\ removed[p] # << >>
    /\ DirectIds(project[p]) # {}
    /\ \E a \in assoc : a[1] # project[p] /\ a[2] = removed[p][1][1]

C9_SecondCallSameOutcomeNoRemoval ==
  \A p \in Callers :
    (pc[p] = "done" /\ last[project[p]].raised # "pending") =>
      /\ outcome[p].raised = last[project[p]].raised
      /\ AsSet(outcome[p].value) = AsSet(last[project[p]].value)
      /\ removed[p] = << >>

\* the second of two calls whose first removed a stale association and
\* returned endpoints
C9_Witness ==
  \E p \in Callers :
    /\ Returned(p)
    /\ last[project[p]].raised = "none"
    /\ last[project[p]].removed # << >>
    /\ outcome[p].value # EmptyDict

\* C10: with two callers interleaved, no call ends with the failure of a
\* removal, and two calls for the same project that are both over have
\* returned the same endpoints.
C10_RemovalFailureNotEscalated ==
  \A p \in Callers :
    pc[p] = "done" =>
      /\ outcome[p].raised # "NotFound"
      /\ \A q \in Callers :
           (Returned(p) /\ Returned(q) /\ project[q] = project[p]) =>
             KeySet(outcome[q].value) = KeySet(outcome[p].value)

----------------------------------------------------------------------------
(* Claims about the catalog behind a project                               *)

\* a service entry with a key that holds 'URL' and without 'name'
NamelessWithURL(t) ==
  \E r \in 1..Len(t) : \E s \in 1..Len(t[r][2]) :
    LET service_ref == t[r][2][s][2] IN
    /\ ~Has(service_ref, sName)
    /\ \E i \in 1..Len(service_ref) : Contains(service_ref[i][1], sURL)

\* a service entry without 'name' and without such a key
NamelessWithoutURL(t) ==
  \E r \in 1..Len(t) : \E s \in 1..Len(t[r][2]) :
    LET service_ref == t[r][2][s][2] IN
    /\ ~Has(service_ref, sName)
    /\ \A i \in 1..Len(service_ref) : ~Contains(service_ref[i][1], sURL)

\* the resolution of project q reads the catalog: it has a direct
\* association to fetch, or it exists and has groups that are all found
ReadsCatalog(q) ==
  \/ driver_list_endpoints_for_project(assoc, q) # {}
  \/ /\ q \in Projects
     /\ AssociatedGroups(q) # {}
     /\ ~AnyGroupMissing(q)

\* C12: when a service entry of the template has a URL key and no 'name',
\* list_endpoints, get_endpoint and every resolution of a project that reads
\* the catalog raise KeyError, returning nothing; when no entry is such,
\* entries without 'name' and without URL key make none of them raise it.
C12_NamelessServiceWithURLRaises ==
  /\ op[1] = "list_endpoints" =>
       /\ NamelessWithURL(templates) => ret.raised = "KeyError"
       /\ ~NamelessWithURL(templates) => ret.raised = "none"
  /\ op[1] = "get_endpoint" =>
       /\ NamelessWithURL(templates) => ret.raised = "KeyError"
       /\ ~NamelessWithURL(templates) =>
            ret.raised \in {"none", "EndpointNotFound"}
  /\ \A p \in Callers :
       pc[p] = "done" =>
         /\ (NamelessWithURL(templates) /\ ReadsCatalog(project[p])) =>
              (outcome[p].raised = "KeyError" /\ outcome[p].value = EmptyDict)
         /\ ~NamelessWithURL(templates) =>
              outcome[p].raised \in {"none", "ProjectNotFound"}

\* a resolution through a group only that raised KeyError over a template
\* where one nameless service has a URL key and another has none, after
\* list_endpoints raised it
C12_Witness ==
  \E p \in Callers :
    /\ pc[p] = "done"
    /\ outcome[p].raised = "KeyError"
    /\ outcome[p].at = "groups"
    /\ NamelessWithURL(templates)
    /\ NamelessWithoutURL(templates)
    /\ op[1] = "list_endpoints"
    /\ ret.raised = "KeyError"

\* the region, service and interface of an endpoint record
Triple(e) == <<e.region, e.service_id, e.interface>>

\* C13: two records returned by list_endpoints that differ in region,
\* service or interface have different ids, and the record get_endpoint
\* returns for an id is the only record of the catalog with that id.
C13_EndpointIdsUnique ==
  /\ (op[1] = "list_endpoints" /\ ret.raised = "none") =>
       \A i, j \in 1..Len(ret.value) :
         Triple(ret.value[i]) # Triple(ret.value[j]) =>
           ret.value[i].id # ret.value[j].id
  /\ (op[1] = "get_endpoint" /\ ret.raised = "none") =>
       \A e \in CatalogEndpoints :
         e.id = op[2] => Triple(e) = Triple(ret.value)

\* C14: a resolution removes associations only in its loop over the refs,
\* before its step that looks up the project and reads the endpoint groups,
\* and that step comes when no ref is left and removes nothing; so a call
\* that raises ProjectNotFound leaves no stale association of its project
\* in the store, and a call with an empty project id returns the direct
\* endpoints, the project not looked up and its groups not read.
C14_RemovalsPrecedeProjectCheck ==
  /\ [](\A p \in Callers :
          /\ (pc[p] = "done" /\ outcome[p].raised = "ProjectNotFound") =>
               /\ outcome[p].at = "groups"
               /\ StaleIds(project[p]) = {}
          /\ (LoopCompleted(p) /\ project[p] = "") =>
               /\ outcome[p].raised = "none"
               /\ KeySet(outcome[p].value) = DirectIds(""))
  /\ [][\A p \in Callers :
          /\ (removed'[p] # removed[p] /\ removed'[p] # << >>) =>
               /\ pc[p] = "loop"
               /\ outcome[p].at = "none"
               /\ outcome'[p].at # "groups"
          /\ (outcome'[p].at = "groups" /\ outcome[p].at # "groups") =>
               /\ refs[p] = {}
               /\ assoc' = assoc
               /\ removed'[p] = removed[p]]_vars

\* a call for a project that does not exist raised ProjectNotFound after
\* two removals, a call with the empty project id, which has a group
\* associated and a stale association, having returned before it
C14_Witness ==
  \E p \in Callers :
    /\ pc[p] = "done"
    /\ outcome[p].raised = "ProjectNotFound"
    /\ Len(removed[p]) = 2
    /\ last[""].raised = "none"
    /\ last[""].removed # << >>
    /\ <<"g_all", "">> \in group_assoc

\* the records of the resolved set of caller p that are enabled
EnabledResolved(p) ==
  {e \in {outcome[p].value[i][2] : i \in 1..Len(outcome[p].value)} :
     Truthy(e.enabled)}

\* caller p has the answer of a get_v3_catalog that the parent class did not
\* give: the resolved set is not empty or the option is off
CalledV3(p) ==
  /\ pc[p] = "v3"
  /\ op[1] = "get_v3_catalog"
  /\ outcome[p].raised = "none"
  /\ (outcome[p].value # EmptyDict \/ ~op[4])

\* endpoint record e of the resolved set is entry k of service s of the list
EmittedAt(e, s, k) ==
  LET out == ret.value[s].endpoints[k] IN
  /\ DOMAIN out = DOMAIN e \ DeletedKeys
  /\ \A key \in DOMAIN out \ {"url"} : out[key] = e[key]
  /\ out.url = format_url(e.url, V3Substitutions(op[2], op[3]), {}).value
  /\ get_service(templates, e.service_id).raised = "none"
  /\ \A key \in {"type", "name", "description"} :
       /\ key \in DOMAIN get_service(templates, e.service_id).value
       /\ ret.value[s][key] = get_service(templates, e.service_id).value[key]

\* the list returned has the services of the enabled endpoints of the
\* resolved set, each endpoint once and without the deleted keys
V3Listing ==
  /\ \A s \in 1..Len(ret.value) :
       /\ DOMAIN ret.value[s] = {"type", "name", "description", "endpoints"}
       /\ Len(ret.value[s].endpoints) >= 1
       /\ \A k \in 1..Len(ret.value[s].endpoints) :
            /\ DOMAIN ret.value[s].endpoints[k] \cap DeletedKeys = {}
            /\ \E e \in EnabledResolved(1) : EmittedAt(e, s, k)
  /\ \A e \in EnabledResolved(1) :
       Cardinality({sk \in UNION {{<<s, k>> :
                                      k \in 1..Len(ret.value[s].endpoints)} :
                                   s \in 1..Len(ret.value)} :
                      EmittedAt(e, sk[1], sk[2])}) = 1

\* C11: when the resolved set of the project is not empty or the option
\* return_all_endpoints_if_no_filter is off, get_v3_catalog returns a list
\* of services {type, name, description, endpoints} where every enabled
\* endpoint of the resolved set is once, under the service of its
\* service_id, no other endpoint is, no service is without endpoint, and
\* no endpoint has service_id, enabled, legacy_endpoint_id, region_id or id.
C11_V3CatalogListsEnabledResolved ==
  CalledV3(1) => (ret.raised = "none" /\ V3Listing)

====
